---- MODULE Spec2Model ----
(***************************************************************************)
(* The execution engine of hiero_sdk_python: _Executable._execute, the     *)
(* bounded retry loop of src/hiero_sdk_python/executable.py, with its      *)
(* exponential backoff and its node switch on transport failures.          *)
(*                                                                         *)
(* One behaviour is one call of _execute(client).  The network is the      *)
(* environment: at every dispatch it answers with a response carrying a    *)
(* precheck status, or the call raises grpc.RpcError.                      *)
(***************************************************************************)
EXTENDS Integers, Sequences, FiniteSets, TLC

VARIABLES
    node_account_ids,   \* client.get_node_account_ids(): the ordered candidate list
    client_node,        \* client.node_account_id: the client's current node
    max_attempts,       \* client.max_attempts
    min_backoff,        \* self._min_backoff
    max_backoff,        \* self._max_backoff
    grpc_deadline,      \* self._grpc_deadline
    operation,          \* the operation executed: its kind and its fields
    method,             \* the _Method that _get_method(channel) returns for it
    self_node,          \* self.node_account_id
    channel,            \* local channel: the node that client.channel led to at line 170
    is_frozen,          \* the transaction's frozen flag (self._is_frozen)
    last_call,          \* history: the last setter call, its argument and result
    interfered,         \* history: another execution switched the client's node
                        \* between lines 170 and 173 of the current attempt
    attempt,            \* the loop variable of `for attempt in range(max_attempts)`
    current_backoff,    \* local current_backoff
    err_persistant,     \* local err_persistant
    proto_request,      \* local proto_request
    pc,                 \* "loop" | "dispatch" | "done"
    outcome,            \* what _execute returned or raised
    start_node,         \* history: client.node_account_id when _execute was entered
    dispatches,         \* history: number of _execute_method calls
    builds,             \* history: number of _make_request calls
    called,             \* history: the callables _execute_method called, in order
    hist,               \* history: one record per answered dispatch
    sleeps,             \* history: the arguments of _delay_for_attempt, in call order
    switches            \* history: number of client._switch_node calls

vars == << node_account_ids, client_node, max_attempts, min_backoff, max_backoff,
           grpc_deadline, operation, method,
           is_frozen, last_call,
           self_node, channel, interfered, attempt, current_backoff, err_persistant, proto_request,
           pc, outcome, start_node, dispatches, builds, called, hist, sleeps,
           switches >>

------------------------------------------------------------------------------
(* Bounds of the model *)

MaxAttempts == 3
MaxNodes == 3
MaxFloor == 2
MaxCeiling == 4

(* Program constants: executable.py:14-16 *)

DEFAULT_MAX_BACKOFF == 8000
DEFAULT_MIN_BACKOFF == 250
DEFAULT_GRPC_DEADLINE == 10000

------------------------------------------------------------------------------
(* Values *)

None == "None"

\* self.node_account_id = None: no node.
NoNode == 0

\* AccountId(0, 0, 3), AccountId(0, 0, 4), ... as the tests name the nodes.
NodeList(n) == [i \in 1..n |-> i + 2]

NodeLists == { NodeList(n) : n \in 1..MaxNodes }

\* The configured (min_backoff, max_backoff) pairs: the defaults of __init__
\* and small pairs with min_backoff <= max_backoff.
BackoffPairs ==
    { << DEFAULT_MIN_BACKOFF, DEFAULT_MAX_BACKOFF >> } \cup
    { << lo, hi >> \in (1..MaxFloor) \X (1..MaxCeiling) : lo <= hi }

\* _ExecutionState
RETRY == "RETRY"
FINISHED == "FINISHED"
ERROR == "ERROR"
EXPIRED == "EXPIRED"

\* Precheck status codes a response can carry.
Statuses == { "BUSY", "PLATFORM_NOT_ACTIVE", "OK", "TRANSACTION_EXPIRED",
              "INVALID_TRANSACTION_BODY" }

Responses == [ status : Statuses ]

\* grpc.RpcError instances the dispatch can raise.
RpcErrors == { [ code |-> "UNAVAILABLE", details |-> "Test error" ],
               [ code |-> "DEADLINE_EXCEEDED", details |-> "Deadline Exceeded" ] }

NoError == [ kind |-> "none", status |-> "none", details |-> "none" ]

\* _should_retry(response): the classification of a response.
ShouldRetry(response) ==
    CASE response.status \in { "BUSY", "PLATFORM_NOT_ACTIVE" } -> RETRY
      [] response.status = "OK" -> FINISHED
      [] response.status = "TRANSACTION_EXPIRED" -> EXPIRED
      [] OTHER -> ERROR

\* _map_status_error(response): the error object of a response's status.
MapStatusError(response) ==
    [ kind |-> "precheck", status |-> response.status, details |-> "none" ]

\* f"Status: {e.code()}, Details: {e.details()}"
RpcErrorText(e) ==
    [ kind |-> "rpc", status |-> e.code, details |-> e.details ]

\* _map_response(response, node_id, proto_request)
MapResponse(response, node_id, request) ==
    [ response |-> response, node_id |-> node_id, request |-> request ]

\* _make_request(): the request of this attempt, addressed to self.node_account_id.
MakeRequest(node, att) == [ node |-> node, attempt |-> att ]

\* No request built yet.
NoRequest == MakeRequest(NoNode, -1)

\* No result: _execute has not returned.
NoResult == MapResponse([ status |-> "none" ], NoNode, NoRequest)

NoOutcome == [ kind |-> "none", node |-> NoNode, error |-> NoError, result |-> NoResult ]

\* Duration(seconds)
Duration(seconds) == [ seconds |-> seconds ]

\* The default auto-renew period of a topic, in seconds.
DefaultAutoRenewSeconds == 7890000

\* A field that the class of the transaction does not have.
NoDuration == Duration(0)

\* TopicUpdateTransaction(topic_id): the other fields at their defaults, memo
\* as "memo or ''"; token_id and account_id are not fields of this class.
TopicUpdateTransaction(topic_id) ==
    [ kind |-> "TopicUpdate", topic_id |-> topic_id, token_id |-> None,
      account_id |-> None, memo |-> "", admin_key |-> None, submit_key |-> None,
      auto_renew_period |-> Duration(DefaultAutoRenewSeconds),
      auto_renew_account |-> None, expiration_time |-> None ]

\* TokenUnfreezeTransaction(token_id, account_id): the topic fields are not
\* fields of this class.
TokenUnfreezeTransaction(token_id, account_id) ==
    [ kind |-> "TokenUnfreeze", topic_id |-> None, token_id |-> token_id,
      account_id |-> account_id, memo |-> None, admin_key |-> None,
      submit_key |-> None, auto_renew_period |-> NoDuration,
      auto_renew_account |-> None, expiration_time |-> None ]

\* The operations: a TopicUpdateTransaction with or without its topic_id, a
\* TokenUnfreezeTransaction with or without its token_id and account_id.
Operations ==
    { TopicUpdateTransaction(t) : t \in { None, "0.0.1001" } }
    \cup
    { TokenUnfreezeTransaction(t, a) :
        t \in { None, "0.0.2002" }, a \in { None, "0.0.3003" } }

\* The argument of a setter call: its Python type, and its value (val for an
\* object or None, seconds for an int or a Duration).
Object(v) ==
    [ type |-> IF v = None THEN "NoneType" ELSE "object", val |-> v, seconds |-> 0 ]
IntArg(n) == [ type |-> "int", val |-> None, seconds |-> n ]
DurationArg(n) == [ type |-> "Duration", val |-> None, seconds |-> n ]
StrArg(v) == [ type |-> "str", val |-> v, seconds |-> 0 ]

\* No setter has been called on the transaction op.
NoCall(op) ==
    [ setter |-> "none", arg |-> Object(None), frozen |-> FALSE, before |-> op,
      raised |-> "none", returned |-> "none" ]

\* TopicUpdateTransaction.build_transaction_body(): the message of the
\* ValueError it raises, None when the body is built.
TopicUpdateBuildBody(op) ==
    IF op.topic_id = None THEN "Missing required fields: topic_id" ELSE None

\* TokenUnfreezeTransaction.build_transaction_body(): the message of the
\* ValueError it raises, None when the body is built.
TokenUnfreezeBuildBody(op) ==
    IF op.token_id = None THEN "Missing required TokenID."
    ELSE IF op.account_id = None THEN "Missing required AccountID."
    ELSE None

\* _make_request() builds the body of the operation's own class.
BuildTransactionBody(op) ==
    IF op.kind = "TopicUpdate" THEN TopicUpdateBuildBody(op)
    ELSE TokenUnfreezeBuildBody(op)

\* _Method(query_func, transaction_func): each slot a callable or None.
Methods == [ query : { None, "query_func" }, transaction : { None, "transaction_func" } ]

\* TopicUpdateTransaction._get_method(channel)
TopicUpdateMethod == [ query |-> None, transaction |-> "updateTopic" ]

\* The _Method values _get_method can return for an operation.
GetMethod(op) == IF op.kind = "TopicUpdate" THEN { TopicUpdateMethod } ELSE Methods

\* _execute_method with the slots tried in the other order.
ExecuteMethodQueryFirst(m) ==
    IF m.query # None THEN m.query
    ELSE IF m.transaction # None THEN m.transaction
    ELSE None

\* _execute_method(method, proto_request): the callable it calls, None when it
\* raises Exception("No method to execute").
ExecuteMethod(m) ==
    IF m.transaction # None THEN m.transaction
    ELSE IF m.query # None THEN m.query
    ELSE None

\* An error raised by a collaborator and propagated by _execute.
Propagated(message) == [ kind |-> "exception", status |-> message, details |-> "none" ]

------------------------------------------------------------------------------
(* Pure steps of _execute *)

\* The backoff doubled at every retry, without the test against the ceiling.
NextBackoffUnguarded(att, backoff, ceiling) ==
    IF att > 0 THEN backoff * 2 ELSE backoff

\* Lines 166-167: the backoff an attempt runs with.
NextBackoff(att, backoff, ceiling) ==
    IF att > 0 /\ backoff < ceiling THEN backoff * 2 ELSE backoff

\* A switch computed from the attempt number without the step to the next node.
NodeIndexOffByOne(att, ids) == att % Len(ids)

\* Line 210: the 0-based index of the node to switch to.
NodeIndex(att, ids) == (att + 1) % Len(ids)

\* _delay_for_attempt(current_backoff): time.sleep(current_backoff * 0.001);
\* the history keeps the argument, in milliseconds.
DelayForAttempt(backoff) == sleeps' = Append(sleeps, backoff)

\* client._switch_node(node)
SwitchNode(node) == client_node' = node /\ switches' = switches + 1

Config == << node_account_ids, max_attempts, min_backoff, max_backoff, start_node,
             grpc_deadline, operation, method, is_frozen, last_call, interfered >>

Sent == << dispatches, builds, called >>

------------------------------------------------------------------------------
Init ==
    /\ node_account_ids \in NodeLists
    /\ client_node \in { node_account_ids[i] : i \in 1..Len(node_account_ids) }
    /\ max_attempts \in 0..MaxAttempts
    /\ \E p \in BackoffPairs : min_backoff = p[1] /\ max_backoff = p[2]
    /\ grpc_deadline = DEFAULT_GRPC_DEADLINE
    /\ operation \in Operations
    /\ method \in GetMethod(operation)
    /\ self_node = NoNode
    /\ is_frozen = FALSE
    /\ last_call = NoCall(operation)
    /\ channel = NoNode
    /\ interfered = FALSE
    /\ attempt = 0
    /\ current_backoff = min_backoff
    /\ err_persistant = NoError
    /\ proto_request = NoRequest
    /\ pc = "loop"
    /\ outcome = NoOutcome
    /\ start_node = client_node
    /\ dispatches = 0
    /\ builds = 0
    /\ called = << >>
    /\ hist = << >>
    /\ sleeps = << >>
    /\ switches = 0

\* The loop written with one iteration too many: range(max_attempts + 1).
BeginAttemptOneMore ==
    /\ pc = "loop"
    /\ attempt <= max_attempts
    /\ BuildTransactionBody(operation) = None
    /\ ExecuteMethod(method) # None
    /\ current_backoff' = NextBackoff(attempt, current_backoff, max_backoff)
    /\ channel' = client_node
    /\ self_node' = client_node
    /\ proto_request' = MakeRequest(client_node, attempt)
    /\ builds' = builds + 1
    /\ dispatches' = dispatches + 1
    /\ called' = Append(called, ExecuteMethod(method))
    /\ pc' = "dispatch"
    /\ UNCHANGED << Config, client_node, attempt, err_persistant, outcome,
                    hist, sleeps, switches >>

\* The loop written so that it makes a first attempt whatever the budget.
BeginAttemptAtLeastOnce ==
    /\ pc = "loop"
    /\ (attempt < max_attempts \/ attempt = 0)
    /\ BuildTransactionBody(operation) = None
    /\ ExecuteMethod(method) # None
    /\ current_backoff' = NextBackoff(attempt, current_backoff, max_backoff)
    /\ channel' = client_node
    /\ self_node' = client_node
    /\ proto_request' = MakeRequest(client_node, attempt)
    /\ builds' = builds + 1
    /\ dispatches' = dispatches + 1
    /\ called' = Append(called, ExecuteMethod(method))
    /\ pc' = "dispatch"
    /\ UNCHANGED << Config, client_node, attempt, err_persistant, outcome,
                    hist, sleeps, switches >>

\* The backoff kept in the operation's configuration instead of a local.
BeginAttemptWritesFloor ==
    /\ pc = "loop"
    /\ attempt < max_attempts
    /\ BuildTransactionBody(operation) = None
    /\ ExecuteMethod(method) # None
    /\ current_backoff' = NextBackoff(attempt, current_backoff, max_backoff)
    /\ min_backoff' = current_backoff'
    /\ channel' = client_node
    /\ self_node' = client_node
    /\ proto_request' = MakeRequest(client_node, attempt)
    /\ builds' = builds + 1
    /\ dispatches' = dispatches + 1
    /\ called' = Append(called, ExecuteMethod(method))
    /\ pc' = "dispatch"
    /\ UNCHANGED << node_account_ids, max_attempts, max_backoff, start_node,
                    grpc_deadline, operation, method, is_frozen, last_call,
                    interfered, client_node,
                    attempt,
                    err_persistant, outcome, hist, sleeps, switches >>

\* The request built once and kept for the later attempts.
BeginAttemptCachedRequest ==
    /\ pc = "loop"
    /\ attempt < max_attempts
    /\ BuildTransactionBody(operation) = None
    /\ ExecuteMethod(method) # None
    /\ current_backoff' = NextBackoff(attempt, current_backoff, max_backoff)
    /\ channel' = client_node
    /\ self_node' = client_node
    /\ proto_request' = IF proto_request = NoRequest
                        THEN MakeRequest(client_node, attempt)
                        ELSE proto_request
    /\ builds' = IF proto_request = NoRequest THEN builds + 1 ELSE builds
    /\ dispatches' = dispatches + 1
    /\ called' = Append(called, ExecuteMethod(method))
    /\ pc' = "dispatch"
    /\ UNCHANGED << Config, client_node, attempt, err_persistant, outcome,
                    hist, sleeps, switches >>

\* Lines 164-183: the loop admits attempt number `attempt`, adjusts the backoff,
\* copies the client's node, builds the request and calls _execute_method.
BeginAttempt ==
    /\ pc = "loop"
    /\ attempt < max_attempts
    /\ BuildTransactionBody(operation) = None
    /\ ExecuteMethod(method) # None
    /\ current_backoff' = NextBackoff(attempt, current_backoff, max_backoff)
    /\ channel' = client_node
    /\ self_node' = client_node
    /\ proto_request' = MakeRequest(client_node, attempt)
    /\ builds' = builds + 1
    /\ dispatches' = dispatches + 1
    /\ called' = Append(called, ExecuteMethod(method))
    /\ pc' = "dispatch"
    /\ UNCHANGED << Config, client_node, attempt, err_persistant, outcome,
                    hist, sleeps, switches >>

\* _make_request called inside the try and its error handled like a transport
\* failure: saved, the node switched, the loop continued.
MakeRequestRaisesRetried ==
    /\ pc = "loop"
    /\ attempt < max_attempts
    /\ BuildTransactionBody(operation) # None
    /\ current_backoff' = NextBackoff(attempt, current_backoff, max_backoff)
    /\ channel' = client_node
    /\ self_node' = client_node
    /\ builds' = builds + 1
    /\ err_persistant' = Propagated(BuildTransactionBody(operation))
    /\ SwitchNode(node_account_ids[NodeIndex(attempt, node_account_ids) + 1])
    /\ attempt' = attempt + 1
    /\ UNCHANGED << Config, proto_request, pc, outcome, dispatches, called, hist,
                    sleeps >>

\* Lines 164-179: _make_request raises; the error leaves _execute, line 179
\* being outside the try.
MakeRequestRaises ==
    /\ pc = "loop"
    /\ attempt < max_attempts
    /\ BuildTransactionBody(operation) # None
    /\ current_backoff' = NextBackoff(attempt, current_backoff, max_backoff)
    /\ channel' = client_node
    /\ self_node' = client_node
    /\ builds' = builds + 1
    /\ outcome' = [ kind |-> "request_error", node |-> NoNode,
                    error |-> Propagated(BuildTransactionBody(operation)),
                    result |-> NoResult ]
    /\ pc' = "done"
    /\ UNCHANGED << Config, client_node, attempt, err_persistant, proto_request,
                    dispatches, called, hist, sleeps, switches >>

\* Lines 164-183 and 242-246: neither slot of the method is populated;
\* _execute_method raises Exception, which is no grpc.RpcError and leaves _execute.
NoMethodToExecute ==
    /\ pc = "loop"
    /\ attempt < max_attempts
    /\ BuildTransactionBody(operation) = None
    /\ ExecuteMethod(method) = None
    /\ current_backoff' = NextBackoff(attempt, current_backoff, max_backoff)
    /\ channel' = client_node
    /\ self_node' = client_node
    /\ proto_request' = MakeRequest(client_node, attempt)
    /\ builds' = builds + 1
    /\ dispatches' = dispatches + 1
    /\ hist' = Append(hist, [ node |-> client_node, kind |-> "NO_METHOD",
                              answer |-> None, after |-> client_node,
                              request |-> proto_request' ])
    /\ outcome' = [ kind |-> "no_method", node |-> NoNode,
                    error |-> Propagated("No method to execute"), result |-> NoResult ]
    /\ pc' = "done"
    /\ UNCHANGED << Config, client_node, attempt, err_persistant, called,
                    sleeps, switches >>

\* The history record of an answered dispatch.
Answered(kind, answer, after) ==
    [ node |-> self_node, kind |-> kind, answer |-> answer, after |-> after,
      request |-> proto_request ]

\* RETRY handled without the call of _delay_for_attempt.
RespondRetryNoWait ==
    /\ pc = "dispatch"
    /\ \E response \in Responses :
        /\ ShouldRetry(response) = RETRY
        /\ err_persistant' = MapStatusError(response)
        /\ hist' = Append(hist, Answered(RETRY, response, client_node))
    /\ attempt' = attempt + 1
    /\ pc' = "loop"
    /\ UNCHANGED << Config, client_node, self_node, channel, current_backoff, proto_request,
                    outcome, Sent, sleeps, switches >>

\* RETRY handled like a transport failure: the client is switched to the next node.
RespondRetrySwitching ==
    /\ pc = "dispatch"
    /\ \E response \in Responses :
        /\ ShouldRetry(response) = RETRY
        /\ err_persistant' = MapStatusError(response)
        /\ DelayForAttempt(current_backoff)
        /\ SwitchNode(node_account_ids[NodeIndex(attempt, node_account_ids) + 1])
        /\ hist' = Append(hist, Answered(RETRY, response, client_node'))
    /\ attempt' = attempt + 1
    /\ pc' = "loop"
    /\ UNCHANGED << Config, self_node, channel, current_backoff, proto_request,
                    outcome, Sent >>

\* Lines 193-197: RETRY.
RespondRetry ==
    /\ pc = "dispatch"
    /\ \E response \in Responses :
        /\ ShouldRetry(response) = RETRY
        /\ err_persistant' = MapStatusError(response)
        /\ DelayForAttempt(current_backoff)
        /\ hist' = Append(hist, Answered(RETRY, response, client_node))
    /\ attempt' = attempt + 1
    /\ pc' = "loop"
    /\ UNCHANGED << Config, client_node, self_node, channel, current_backoff, proto_request,
                    outcome, Sent, switches >>

\* EXPIRED handled like RETRY: wait and try again.
RespondExpiredRetried ==
    /\ pc = "dispatch"
    /\ \E response \in Responses :
        /\ ShouldRetry(response) = EXPIRED
        /\ err_persistant' = MapStatusError(response)
        /\ DelayForAttempt(current_backoff)
        /\ hist' = Append(hist, Answered(EXPIRED, response, client_node))
    /\ attempt' = attempt + 1
    /\ pc' = "loop"
    /\ UNCHANGED << Config, client_node, self_node, channel, current_backoff, proto_request,
                    outcome, Sent, switches >>

\* Lines 198-199: EXPIRED.
RespondExpired ==
    /\ pc = "dispatch"
    /\ \E response \in Responses :
        /\ ShouldRetry(response) = EXPIRED
        /\ outcome' = [ kind |-> "status_error", node |-> NoNode,
                        error |-> MapStatusError(response), result |-> NoResult ]
        /\ hist' = Append(hist, Answered(EXPIRED, response, client_node))
    /\ pc' = "done"
    /\ UNCHANGED << Config, client_node, self_node, channel, attempt, current_backoff,
                    err_persistant, proto_request, Sent, sleeps, switches >>

\* Lines 200-201: ERROR.
RespondError ==
    /\ pc = "dispatch"
    /\ \E response \in Responses :
        /\ ShouldRetry(response) = ERROR
        /\ outcome' = [ kind |-> "status_error", node |-> NoNode,
                        error |-> MapStatusError(response), result |-> NoResult ]
        /\ hist' = Append(hist, Answered(ERROR, response, client_node))
    /\ pc' = "done"
    /\ UNCHANGED << Config, client_node, self_node, channel, attempt, current_backoff,
                    err_persistant, proto_request, Sent, sleeps, switches >>

\* FINISHED mapped with the node the execution started on.
RespondFinishedStartNode ==
    /\ pc = "dispatch"
    /\ \E response \in Responses :
        /\ ShouldRetry(response) = FINISHED
        /\ outcome' = [ kind |-> "returned", node |-> NoNode, error |-> NoError,
                        result |-> MapResponse(response, start_node, proto_request) ]
        /\ hist' = Append(hist, Answered(FINISHED, response, client_node))
    /\ pc' = "done"
    /\ UNCHANGED << Config, client_node, self_node, channel, attempt, current_backoff,
                    err_persistant, proto_request, Sent, sleeps, switches >>

\* Lines 202-204: FINISHED.
RespondFinished ==
    /\ pc = "dispatch"
    /\ \E response \in Responses :
        /\ ShouldRetry(response) = FINISHED
        /\ outcome' = [ kind |-> "returned", node |-> NoNode, error |-> NoError,
                        result |-> MapResponse(response, client_node, proto_request) ]
        /\ hist' = Append(hist, Answered(FINISHED, response, client_node))
    /\ pc' = "done"
    /\ UNCHANGED << Config, client_node, self_node, channel, attempt, current_backoff,
                    err_persistant, proto_request, Sent, sleeps, switches >>

\* A transport failure that hands _switch_node the index instead of the node.
TransportFailureSwitchesToIndex ==
    /\ pc = "dispatch"
    /\ \E e \in RpcErrors :
        /\ err_persistant' = RpcErrorText(e)
        /\ SwitchNode(NodeIndex(attempt, node_account_ids))
        /\ hist' = Append(hist, Answered("RPC", e, client_node'))
    /\ attempt' = attempt + 1
    /\ pc' = "loop"
    /\ UNCHANGED << Config, self_node, channel, current_backoff, proto_request, outcome,
                    Sent, sleeps >>

\* A transport failure that does not count against the budget.
TransportFailureUncounted ==
    /\ pc = "dispatch"
    /\ \E e \in RpcErrors :
        /\ err_persistant' = RpcErrorText(e)
        /\ SwitchNode(node_account_ids[NodeIndex(attempt, node_account_ids) + 1])
        /\ hist' = Append(hist, Answered("RPC", e, client_node'))
    /\ pc' = "loop"
    /\ UNCHANGED << Config, self_node, channel, attempt, current_backoff, proto_request,
                    outcome, Sent, sleeps >>

\* A transport failure whose error is not saved in err_persistant.
TransportFailureUnsaved ==
    /\ pc = "dispatch"
    /\ \E e \in RpcErrors :
        /\ SwitchNode(node_account_ids[NodeIndex(attempt, node_account_ids) + 1])
        /\ hist' = Append(hist, Answered("RPC", e, client_node'))
    /\ attempt' = attempt + 1
    /\ pc' = "loop"
    /\ UNCHANGED << Config, self_node, channel, current_backoff, err_persistant, proto_request,
                    outcome, Sent, sleeps >>

\* Lines 205-213: the dispatch raised grpc.RpcError.
TransportFailure ==
    /\ pc = "dispatch"
    /\ \E e \in RpcErrors :
        /\ err_persistant' = RpcErrorText(e)
        /\ SwitchNode(node_account_ids[NodeIndex(attempt, node_account_ids) + 1])
        /\ hist' = Append(hist, Answered("RPC", e, client_node'))
    /\ attempt' = attempt + 1
    /\ pc' = "loop"
    /\ UNCHANGED << Config, self_node, channel, current_backoff, proto_request, outcome,
                    Sent, sleeps >>

\* The loop left without the final raise: _execute returns None.
ExhaustedSilently ==
    /\ pc = "loop"
    /\ attempt >= max_attempts
    /\ pc' = "done"
    /\ UNCHANGED << Config, client_node, self_node, channel, attempt, current_backoff,
                    err_persistant, proto_request, outcome, Sent, hist, sleeps,
                    switches >>

\* Line 215: the loop is exhausted.
Exhausted ==
    /\ pc = "loop"
    /\ attempt >= max_attempts
    /\ outcome' = [ kind |-> "max_attempts", node |-> client_node,
                    error |-> err_persistant, result |-> NoResult ]
    /\ pc' = "done"
    /\ UNCHANGED << Config, client_node, self_node, channel, attempt, current_backoff,
                    err_persistant, proto_request, Sent, hist, sleeps, switches >>

Next ==
    \/ BeginAttempt
    \/ MakeRequestRaises
    \/ NoMethodToExecute
    \/ RespondRetry
    \/ RespondExpired
    \/ RespondError
    \/ RespondFinished
    \/ TransportFailure
    \/ Exhausted

Spec == Init /\ [][Next]_vars

\* _execute runs synchronously on the calling thread: whenever a step is
\* possible (the dispatch answers or raises, time.sleep returns) it is taken.
FairSpec == Spec /\ WF_vars(Next)

\* A response that the operation's _should_retry maps to no member of
\* _ExecutionState.
UnclassifiedResponses == { [ status |-> "UNKNOWN" ] }

\* Lines 189-204 when _should_retry returns a value that is no member of
\* _ExecutionState: no case of the match applies, nothing is raised or
\* returned, and the for loop goes on with its next iteration.
RespondUnclassified ==
    /\ pc = "dispatch"
    /\ \E response \in UnclassifiedResponses :
        hist' = Append(hist, Answered("UNCLASSIFIED", response, client_node))
    /\ attempt' = attempt + 1
    /\ pc' = "loop"
    /\ UNCHANGED << Config, client_node, self_node, channel, current_backoff, err_persistant,
                    proto_request, outcome, Sent, sleeps, switches >>

NextUnclassified == Next \/ RespondUnclassified

\* The executions of an operation whose _should_retry is not held to the four
\* members of _ExecutionState.
SpecUnclassified == Init /\ [][NextUnclassified]_vars

------------------------------------------------------------------------------
(* Two executions on one shared client.  The engine takes no lock, so the  *)
(* steps of another execution can fall between any two lines of this one.  *)
(* Of the other execution only its write to the shared client is modelled: *)
(* the _switch_node of its lines 209-212.                                  *)

\* The channel wrapper made once and kept for the later attempts.
AcquireChannelOnce ==
    /\ pc = "loop"
    /\ attempt < max_attempts
    /\ current_backoff' = NextBackoff(attempt, current_backoff, max_backoff)
    /\ channel' = IF channel = NoNode THEN client_node ELSE channel
    /\ interfered' = FALSE
    /\ pc' = "channel"
    /\ UNCHANGED << node_account_ids, max_attempts, min_backoff, max_backoff,
                    start_node, grpc_deadline, operation, method, is_frozen, last_call,
                    client_node,
                    self_node, attempt, err_persistant, proto_request, outcome,
                    Sent, hist, sleeps, switches >>

\* Lines 164-170: the backoff of the attempt and the channel wrapper made of
\* client.channel.
AcquireChannel ==
    /\ pc = "loop"
    /\ attempt < max_attempts
    /\ current_backoff' = NextBackoff(attempt, current_backoff, max_backoff)
    /\ channel' = client_node
    /\ interfered' = FALSE
    /\ pc' = "channel"
    /\ UNCHANGED << node_account_ids, max_attempts, min_backoff, max_backoff,
                    start_node, grpc_deadline, operation, method, is_frozen, last_call,
                    client_node,
                    self_node, attempt, err_persistant, proto_request, outcome,
                    Sent, hist, sleeps, switches >>

\* Lines 173-183: the node copied from the client, the request built and sent.
RecordNodeAndDispatch ==
    /\ pc = "channel"
    /\ self_node' = client_node
    /\ proto_request' = MakeRequest(client_node, attempt)
    /\ builds' = builds + 1
    /\ dispatches' = dispatches + 1
    /\ called' = Append(called, ExecuteMethod(method))
    /\ pc' = "dispatch"
    /\ UNCHANGED << Config, client_node, channel, attempt, current_backoff,
                    err_persistant, outcome, hist, sleeps, switches >>

\* Lines 209-212 of another execution on the same client, at its attempt a.
OtherExecutionSwitches ==
    /\ pc # "done"
    /\ \E a \in 0..(MaxAttempts - 1) :
        client_node' = node_account_ids[NodeIndex(a, node_account_ids) + 1]
    /\ interfered' = (interfered \/ pc = "channel")
    /\ UNCHANGED << node_account_ids, max_attempts, min_backoff, max_backoff,
                    start_node, grpc_deadline, operation, method, is_frozen, last_call,
                    self_node,
                    channel, attempt, current_backoff, err_persistant,
                    proto_request, pc, outcome, Sent, hist, sleeps, switches >>

\* The largest client.max_attempts of the executions that share a client.
MaxSharedAttempts == 2

\* A TopicUpdateTransaction with its topic_id, with the default backoff.
InitConcurrent ==
    /\ Init
    /\ max_attempts <= MaxSharedAttempts
    /\ BuildTransactionBody(operation) = None
    /\ operation.kind = "TopicUpdate"
    /\ min_backoff = DEFAULT_MIN_BACKOFF

NextConcurrent ==
    \/ AcquireChannel
    \/ RecordNodeAndDispatch
    \/ OtherExecutionSwitches
    \/ RespondRetry
    \/ RespondExpired
    \/ RespondError
    \/ RespondFinished
    \/ TransportFailure
    \/ Exhausted

SpecConcurrent == InitConcurrent /\ [][NextConcurrent]_vars

------------------------------------------------------------------------------
(* The field setters of the two transaction classes, called on a           *)
(* transaction before it is executed.                                      *)

\* TokenUnfreezeTransaction.__require_not_frozen(): the exception it raises,
\* "none" when it returns.
RequireNotFrozen(frozen) == IF frozen THEN "ValueError" ELSE "none"

\* Transaction._require_not_frozen(), the guard of the TopicUpdateTransaction
\* setters: the exception it raises, "none" when it returns.
TransactionRequireNotFrozen(frozen) == IF frozen THEN "Exception" ELSE "none"

\* The arguments the setters are called with.
IdArgs(id) == { Object(None), Object(id), Object("0.0.9009") }
KeyArgs == { Object(None), Object("key") }
MemoArgs == { Object(""), Object("memo") }
TimeArgs == { Object(None), Object("2030-01-01") }
PeriodArgs ==
    { IntArg(30), DurationArg(30), DurationArg(DefaultAutoRenewSeconds),
      StrArg("30"), Object(None) }

\* The record of a setter call that raised exc ("none": it returned self).
Called(name, arg, exc) ==
    [ setter |-> name, arg |-> arg, frozen |-> is_frozen, before |-> operation,
      raised |-> exc, returned |-> IF exc = "none" THEN "self" ELSE "none" ]

\* What a setter call leaves alone: all but the transaction's fields.
Engine == << node_account_ids, client_node, max_attempts, min_backoff, max_backoff,
             grpc_deadline, method, is_frozen, self_node, channel, interfered,
             attempt, current_backoff, err_persistant, proto_request, pc, outcome,
             start_node, Sent, hist, sleeps, switches >>

\* The transaction is frozen: from then on the guards of the setters raise.
Freeze ==
    /\ ~ is_frozen
    /\ is_frozen' = TRUE
    /\ UNCHANGED << node_account_ids, client_node, max_attempts, min_backoff,
                    max_backoff, grpc_deadline, operation, method, last_call,
                    self_node, channel, interfered, attempt, current_backoff,
                    err_persistant, proto_request, pc, outcome, start_node, Sent,
                    hist, sleeps, switches >>

\* set_token_id with the assignment made before the guard is called.
SetTokenIdAssignsFirst ==
    /\ operation.kind = "TokenUnfreeze"
    /\ \E arg \in IdArgs("0.0.2002") :
        LET exc == RequireNotFrozen(is_frozen) IN
        /\ operation' = [ operation EXCEPT !.token_id = arg.val ]
        /\ last_call' = Called("set_token_id", arg, exc)
    /\ UNCHANGED Engine

\* TokenUnfreezeTransaction.set_token_id(token_id)
SetTokenId ==
    /\ operation.kind = "TokenUnfreeze"
    /\ \E arg \in IdArgs("0.0.2002") :
        LET exc == RequireNotFrozen(is_frozen) IN
        /\ operation' = IF exc = "none"
                        THEN [ operation EXCEPT !.token_id = arg.val ]
                        ELSE operation
        /\ last_call' = Called("set_token_id", arg, exc)
    /\ UNCHANGED Engine

\* TokenUnfreezeTransaction.set_account_id(account_id)
SetAccountId ==
    /\ operation.kind = "TokenUnfreeze"
    /\ \E arg \in IdArgs("0.0.3003") :
        LET exc == RequireNotFrozen(is_frozen) IN
        /\ operation' = IF exc = "none"
                        THEN [ operation EXCEPT !.account_id = arg.val ]
                        ELSE operation
        /\ last_call' = Called("set_account_id", arg, exc)
    /\ UNCHANGED Engine

\* TopicUpdateTransaction.set_topic_id(topic_id)
SetTopicId ==
    /\ operation.kind = "TopicUpdate"
    /\ \E arg \in IdArgs("0.0.1001") :
        LET exc == TransactionRequireNotFrozen(is_frozen) IN
        /\ operation' = IF exc = "none"
                        THEN [ operation EXCEPT !.topic_id = arg.val ]
                        ELSE operation
        /\ last_call' = Called("set_topic_id", arg, exc)
    /\ UNCHANGED Engine

\* TopicUpdateTransaction.set_memo(memo)
SetMemo ==
    /\ operation.kind = "TopicUpdate"
    /\ \E arg \in MemoArgs :
        LET exc == TransactionRequireNotFrozen(is_frozen) IN
        /\ operation' = IF exc = "none"
                        THEN [ operation EXCEPT !.memo = arg.val ]
                        ELSE operation
        /\ last_call' = Called("set_memo", arg, exc)
    /\ UNCHANGED Engine

\* TopicUpdateTransaction.set_admin_key(key)
SetAdminKey ==
    /\ operation.kind = "TopicUpdate"
    /\ \E arg \in KeyArgs :
        LET exc == TransactionRequireNotFrozen(is_frozen) IN
        /\ operation' = IF exc = "none"
                        THEN [ operation EXCEPT !.admin_key = arg.val ]
                        ELSE operation
        /\ last_call' = Called("set_admin_key", arg, exc)
    /\ UNCHANGED Engine

\* TopicUpdateTransaction.set_submit_key(key)
SetSubmitKey ==
    /\ operation.kind = "TopicUpdate"
    /\ \E arg \in KeyArgs :
        LET exc == TransactionRequireNotFrozen(is_frozen) IN
        /\ operation' = IF exc = "none"
                        THEN [ operation EXCEPT !.submit_key = arg.val ]
                        ELSE operation
        /\ last_call' = Called("set_submit_key", arg, exc)
    /\ UNCHANGED Engine

\* TopicUpdateTransaction.set_auto_renew_period(seconds): an int is stored as
\* Duration(seconds), a Duration as it is, any other type raises TypeError.
SetAutoRenewPeriod ==
    /\ operation.kind = "TopicUpdate"
    /\ \E arg \in PeriodArgs :
        LET guard == TransactionRequireNotFrozen(is_frozen)
            exc == IF guard # "none" THEN guard
                   ELSE IF arg.type \in { "int", "Duration" } THEN "none"
                   ELSE "TypeError"
        IN
        /\ operation' = IF exc = "none"
                        THEN [ operation EXCEPT
                                 !.auto_renew_period = Duration(arg.seconds) ]
                        ELSE operation
        /\ last_call' = Called("set_auto_renew_period", arg, exc)
    /\ UNCHANGED Engine

\* TopicUpdateTransaction.set_auto_renew_account(account_id)
SetAutoRenewAccount ==
    /\ operation.kind = "TopicUpdate"
    /\ \E arg \in IdArgs("0.0.3003") :
        LET exc == TransactionRequireNotFrozen(is_frozen) IN
        /\ operation' = IF exc = "none"
                        THEN [ operation EXCEPT !.auto_renew_account = arg.val ]
                        ELSE operation
        /\ last_call' = Called("set_auto_renew_account", arg, exc)
    /\ UNCHANGED Engine

\* TopicUpdateTransaction.set_expiration_time(expiration_time)
SetExpirationTime ==
    /\ operation.kind = "TopicUpdate"
    /\ \E arg \in TimeArgs :
        LET exc == TransactionRequireNotFrozen(is_frozen) IN
        /\ operation' = IF exc = "none"
                        THEN [ operation EXCEPT !.expiration_time = arg.val ]
                        ELSE operation
        /\ last_call' = Called("set_expiration_time", arg, exc)
    /\ UNCHANGED Engine

\* A newly constructed transaction, on a client with one node.
InitSetters ==
    /\ Init
    /\ Len(node_account_ids) = 1
    /\ max_attempts = 0
    /\ min_backoff = DEFAULT_MIN_BACKOFF

NextSetters ==
    \/ Freeze
    \/ SetTokenId
    \/ SetAccountId
    \/ SetTopicId
    \/ SetMemo
    \/ SetAdminKey
    \/ SetSubmitKey
    \/ SetAutoRenewPeriod
    \/ SetAutoRenewAccount
    \/ SetExpirationTime

SpecSetters == InitSetters /\ [][NextSetters]_vars

------------------------------------------------------------------------------
(* Vocabulary of the properties *)

\* The positions of hist whose dispatch was answered as `kind`.
Positions(kind) == { i \in 1..Len(hist) : hist[i].kind = kind }

\* The attempts that failed and were followed by `continue`.
Failed == Positions(RETRY) \cup Positions("RPC")

\* All the dispatches answered so far were answered as `kind`.
AllAnswered(kind) == \A i \in 1..Len(hist) : hist[i].kind = kind

\* The 0-based index of `node` in the candidate list.
IndexOf(node) ==
    CHOOSE i \in 0..(Len(node_account_ids) - 1) : node_account_ids[i + 1] = node

\* C1: the number of dispatches never exceeds max_attempts, and every attempt
\* that ended in a RETRY classification or in a transport failure has consumed
\* exactly one unit of the budget: the number of attempts consumed equals the
\* number of such attempts, and every dispatch is the one of its own attempt.
C1_BudgetBoundsDispatches ==
    /\ dispatches <= max_attempts
    /\ attempt <= max_attempts
    /\ attempt = Cardinality(Failed)
    /\ dispatches = Len(hist) + (IF pc = "dispatch" THEN 1 ELSE 0)
    /\ Len(hist) <= attempt + 1

C1_Witness ==
    /\ pc = "done"
    /\ max_attempts >= 2
    /\ dispatches = max_attempts
    /\ Positions(RETRY) # {}
    /\ Positions("RPC") # {}

\* C2: when the first N-1 dispatches are answered RETRY and the N-th FINISHED
\* (N = max_attempts >= 1), _execute has made exactly N dispatches and N-1
\* backoff waits and has returned the mapped result of the N-th response.
C2_RetryThenFinished ==
    ( /\ max_attempts >= 1
      /\ Len(hist) = max_attempts
      /\ \A i \in 1..(max_attempts - 1) : hist[i].kind = RETRY
      /\ hist[max_attempts].kind = FINISHED )
    => /\ pc = "done"
       /\ dispatches = max_attempts
       /\ Len(sleeps) = max_attempts - 1
       /\ outcome.kind = "returned"
       /\ outcome.result = MapResponse(hist[max_attempts].answer,
                                       hist[max_attempts].node,
                                       MakeRequest(hist[max_attempts].node,
                                                   max_attempts - 1))

C2_Witness ==
    /\ max_attempts = MaxAttempts
    /\ Len(hist) = max_attempts
    /\ \A i \in 1..(max_attempts - 1) : hist[i].kind = RETRY
    /\ hist[max_attempts].kind = FINISHED
    /\ outcome.kind = "returned"

\* C3: when every one of the N dispatches is answered RETRY, no further
\* dispatch is made and _execute raises MaxAttemptsError after exactly N
\* dispatches.
C3_AllRetryExhausts ==
    ( /\ max_attempts >= 1
      /\ Len(hist) = max_attempts
      /\ AllAnswered(RETRY) )
    => /\ dispatches = max_attempts
       /\ pc \in { "loop", "done" }
       /\ pc = "loop" => ~ ENABLED BeginAttempt
       /\ pc = "done" => outcome.kind = "max_attempts"

C3_Witness ==
    /\ max_attempts = MaxAttempts
    /\ Len(hist) = max_attempts
    /\ AllAnswered(RETRY)
    /\ outcome.kind = "max_attempts"

\* C4: a response classified ERROR or EXPIRED ends the execution at that
\* attempt with the mapped status error: the dispatch it answers is the last
\* one, and every backoff wait and every node switch belongs to an earlier
\* RETRY or transport failure.
C4_TerminalStatusRaises ==
    \A i \in 1..Len(hist) :
        hist[i].kind \in { ERROR, EXPIRED }
        => /\ i = Len(hist)
           /\ pc = "done"
           /\ dispatches = i
           /\ outcome.kind = "status_error"
           /\ outcome.error = MapStatusError(hist[i].answer)
           /\ Len(sleeps) = Cardinality(Positions(RETRY))
           /\ switches = Cardinality(Positions("RPC"))
           /\ hist[i].after = hist[i].node
           /\ client_node = hist[i].node
           /\ attempt = i - 1

C4_Witness ==
    /\ Len(hist) >= 2
    /\ Len(hist) < max_attempts
    /\ hist[Len(hist)].kind \in { ERROR, EXPIRED }
    /\ Positions(RETRY) # {}

\* The delay sequence of the specification: delay(0) = min_backoff,
\* delay(k) = min(2 * delay(k-1), max_backoff).
RECURSIVE CappedDelay(_)
CappedDelay(k) ==
    IF k = 0 THEN min_backoff
    ELSE LET d == 2 * CappedDelay(k - 1)
         IN  IF d < max_backoff THEN d ELSE max_backoff

\* C5 (as claimed): while no attempt has failed at transport level, the k-th
\* backoff wait (k from 0) lasts CappedDelay(k).
C5_ClaimedCappedDelays ==
    Positions("RPC") = {}
    => \A k \in 1..Len(sleeps) : sleeps[k] = CappedDelay(k - 1)

\* The cyclic successor of `node` in the candidate list.
Successor(node) ==
    node_account_ids[((IndexOf(node) + 1) % Len(node_account_ids)) + 1]

\* C6 (as claimed): after every transport failure the client's current node is
\* the cyclic successor of the node the failed attempt used.
C6_ClaimedSuccessorOfFailedNode ==
    \A i \in Positions("RPC") : hist[i].after = Successor(hist[i].node)

\* C7: when the execution starts on the first candidate and its first M
\* attempts (M < max_attempts) all fail at transport level, then after those M
\* attempts the current node is the candidate at index M mod length, no
\* backoff wait has been made and M units of the budget are consumed.
C7_ConsecutiveTransportFailures ==
    ( /\ start_node = node_account_ids[1]
      /\ AllAnswered("RPC")
      /\ Len(hist) < max_attempts )
    => /\ client_node = node_account_ids[(Len(hist) % Len(node_account_ids)) + 1]
       /\ sleeps = << >>
       /\ attempt = Len(hist)
       /\ switches = Len(hist)

C7_Witness ==
    /\ start_node = node_account_ids[1]
    /\ Len(node_account_ids) = 2
    /\ AllAnswered("RPC")
    /\ Len(hist) = 2
    /\ Len(hist) < max_attempts
    /\ client_node = node_account_ids[1]

\* C8: an attempt answered RETRY leaves the client's current node unchanged
\* (_switch_node is called for transport failures only) and the next attempt
\* is dispatched to the same node.
C8_RetryKeepsNode ==
    /\ switches = Cardinality(Positions("RPC"))
    /\ \A i \in Positions(RETRY) :
        /\ hist[i].after = hist[i].node
        /\ i < Len(hist) => hist[i + 1].node = hist[i].node
        /\ i = Len(hist) => client_node = hist[i].node
        /\ (i = Len(hist) /\ pc = "dispatch") => self_node = hist[i].node

C8_Witness ==
    /\ Len(node_account_ids) >= 2
    /\ Len(hist) >= 2
    /\ hist[1].kind = RETRY
    /\ hist[2].node = hist[1].node

\* C9 (as claimed): the MaxAttemptsError of an exhausted budget carries the
\* node the last attempt was dispatched to.
C9_ClaimedNodeOfLastAttempt ==
    (outcome.kind = "max_attempts" /\ hist # << >>)
    => outcome.node = hist[Len(hist)].node

\* The error an attempt that failed leaves behind.
ErrorOf(h) ==
    IF h.kind = "RPC" THEN RpcErrorText(h.answer) ELSE MapStatusError(h.answer)

\* C10: the MaxAttemptsError of an exhausted budget carries the error of the
\* most recent failed attempt: the mapped status error of a RETRY response,
\* the status and details of a transport failure.
C10_LastErrorReported ==
    (outcome.kind = "max_attempts" /\ hist # << >>)
    => outcome.error = ErrorOf(hist[Len(hist)])

C10_Witness ==
    /\ outcome.kind = "max_attempts"
    /\ Len(hist) >= 2
    /\ hist[Len(hist)].kind = RETRY
    /\ hist[1].kind = "RPC"
    /\ outcome.error = MapStatusError(hist[Len(hist)].answer)
    /\ outcome.error # ErrorOf(hist[1])

\* The ways an execution can end.
Raised == { "status_error", "max_attempts", "request_error", "no_method" }

\* C11: every execution terminates, and it ends either by returning one mapped
\* result or by raising one error (a status error, attempts exhausted, or an
\* error of a collaborator); it has an outcome exactly when it has ended, the
\* outcome never changes and nothing happens after it.
C11_TerminatesWithOneOutcome ==
    /\ <>(pc = "done")
    /\ [](pc = "done" <=> outcome.kind \in Raised \cup { "returned" })
    /\ [](pc # "done" <=> outcome.kind = "none")
    /\ [](outcome.kind = "returned" => outcome.error = NoError)
    /\ [](outcome.kind \in Raised \ { "max_attempts" } => outcome.error # NoError)
    /\ [][pc = "done" => UNCHANGED vars]_vars

C11_Witness ==
    /\ pc = "done"
    /\ max_attempts = MaxAttempts
    /\ Len(hist) = max_attempts
    /\ outcome.kind = "returned"
    /\ Positions("RPC") # {}
    /\ Positions(RETRY) # {}

\* The delay of the k-th backoff wait (k from 1) of an execution whose earlier
\* attempts were all answered RETRY: lines 161 and 166-167 applied k-1 times.
RECURSIVE RetryOnlyDelay(_)
RetryOnlyDelay(k) ==
    IF k = 1 THEN min_backoff
    ELSE NextBackoff(k - 1, RetryOnlyDelay(k - 1), max_backoff)

\* C12 (as claimed): the delay of a backoff wait depends only on the number of
\* RETRY-classified attempts before it, whatever transport failures happened:
\* the k-th wait lasts what it lasts in an execution without transport
\* failures, and the first wait lasts min_backoff.
C12_ClaimedTransportKeepsDelay ==
    \A k \in 1..Len(sleeps) : sleeps[k] = RetryOnlyDelay(k)

\* C13: when _make_request raises, its error leaves _execute at that attempt:
\* nothing is dispatched, no backoff wait and no node switch happens and no
\* later attempt is made.
C13_RequestErrorPropagates ==
    (BuildTransactionBody(operation) # None /\ builds >= 1)
    => /\ pc = "done"
       /\ outcome.kind = "request_error"
       /\ outcome.error = Propagated(BuildTransactionBody(operation))
       /\ builds = 1
       /\ dispatches = 0
       /\ called = << >>
       /\ hist = << >>
       /\ sleeps = << >>
       /\ switches = 0
       /\ client_node = start_node
       /\ attempt = 0

C13_Witness ==
    /\ outcome.kind = "request_error"
    /\ operation.kind = "TokenUnfreeze"
    /\ operation.token_id # None
    /\ max_attempts >= 2
    /\ Len(node_account_ids) >= 2

\* C14: of the client context the engine changes the current node only, and
\* only by the _switch_node of a transport failure; max_attempts, the
\* candidate list, min_backoff, max_backoff and grpc_deadline never change.
C14_OnlyCurrentNodeChanges ==
    [][ /\ UNCHANGED << max_attempts, node_account_ids, min_backoff, max_backoff,
                        grpc_deadline >>
        /\ client_node' # client_node
           => /\ pc = "dispatch"
              /\ switches' = switches + 1
              /\ Len(hist') = Len(hist) + 1
              /\ hist'[Len(hist')].kind = "RPC" ]_vars

C14_Witness ==
    /\ pc = "done"
    /\ client_node # start_node
    /\ Positions(RETRY) # {}
    /\ min_backoff < max_backoff
    /\ current_backoff > min_backoff

\* C15 (as claimed): every delay passed to a backoff wait lies between
\* min_backoff and max_backoff.
C15_ClaimedDelayWithinBounds ==
    \A k \in 1..Len(sleeps) : min_backoff <= sleeps[k] /\ sleeps[k] <= max_backoff

\* C16 (as claimed): no backoff wait precedes the first dispatch, and every
\* backoff wait is followed by another dispatch: an execution never ends with
\* an attempt that waited.
C16_ClaimedWaitThenDispatch ==
    /\ dispatches = 0 => sleeps = << >>
    /\ (pc = "done" /\ hist # << >>) => hist[Len(hist)].kind # RETRY

\* C17 (as claimed): a dispatch is followed by another dispatch only if it
\* failed at transport level or was answered RETRY; after an answer whose
\* classification is none of the four states the execution ends.
C17_ClaimedOnlyRetryOrTransportContinues ==
    \A i \in 1..Len(hist) :
        /\ (i < Len(hist) \/ pc = "dispatch") => hist[i].kind \in { RETRY, "RPC" }
        /\ hist[i].kind = "UNCLASSIFIED" => (i = Len(hist) /\ pc = "done")

\* C18: every dispatch calls exactly one callable: the transaction slot when
\* it is populated, also when the query slot is populated too, otherwise the
\* query slot; when neither is populated _execute_method raises, and the
\* error ends the execution without retry, backoff wait or node switch.
C18_OneCallablePerDispatch ==
    /\ \A i \in 1..Len(called) :
        called[i] = (IF method.transaction # None THEN method.transaction
                     ELSE method.query)
    /\ (method.transaction # None \/ method.query # None)
       => Len(called) = dispatches
    /\ (method.transaction = None /\ method.query = None /\ dispatches >= 1)
       => /\ called = << >>
          /\ pc = "done"
          /\ outcome.kind = "no_method"
          /\ dispatches = 1
          /\ sleeps = << >>
          /\ switches = 0
          /\ attempt = 0
          /\ client_node = start_node

C18_Witness ==
    /\ method.transaction # None
    /\ method.query # None
    /\ Len(called) >= 2
    /\ called[2] = method.transaction

\* C19: every attempt builds its request by one _make_request call before the
\* dispatch, and the request dispatched in an attempt is the one built in that
\* attempt for the node of that attempt.
C19_RequestBuiltPerAttempt ==
    /\ builds = dispatches + (IF outcome.kind = "request_error" THEN 1 ELSE 0)
    /\ \A i \in 1..Len(hist) : hist[i].request = MakeRequest(hist[i].node, i - 1)
    /\ pc = "dispatch" => proto_request = MakeRequest(self_node, attempt)

C19_Witness ==
    /\ Len(hist) >= 2
    /\ hist[2].node # hist[1].node
    /\ hist[2].request # hist[1].request
    /\ builds = 2

\* C20: on FINISHED _execute returns what _map_response makes of that
\* attempt's response, the node that attempt was dispatched to and the request
\* built in that attempt.
C20_ReturnsMappedResponse ==
    outcome.kind = "returned"
    => /\ hist[Len(hist)].kind = FINISHED
       /\ outcome.result = MapResponse(hist[Len(hist)].answer,
                                       hist[Len(hist)].node,
                                       hist[Len(hist)].request)

C20_Witness ==
    /\ outcome.kind = "returned"
    /\ Len(hist) >= 2
    /\ hist[Len(hist)].node # start_node
    /\ outcome.result.node_id = hist[Len(hist)].node

\* C21: across the attempts of an execution the backoff delay never
\* decreases, and once it has reached max_backoff it keeps its value.
C21_BackoffMonotoneThenFlat ==
    [][ /\ current_backoff' >= current_backoff
        /\ current_backoff >= max_backoff => current_backoff' = current_backoff
      ]_vars

C21_Witness ==
    /\ pc = "dispatch"
    /\ attempt >= 2
    /\ min_backoff < max_backoff
    /\ current_backoff >= max_backoff
    /\ Len(sleeps) >= 1
    /\ sleeps[Len(sleeps)] = current_backoff

\* C22 (as claimed): with at least two candidates, after a transport failure
\* the client's current node, which the next attempt targets, differs from
\* the node that just failed.
C22_ClaimedFailedNodeIsLeft ==
    Len(node_account_ids) >= 2
    => \A i \in Positions("RPC") : hist[i].after # hist[i].node

\* The nodes of the candidate list.
Candidates == { node_account_ids[i] : i \in 1..Len(node_account_ids) }

\* C24: the client's current node is a member of the candidate list after
\* every attempt, and so is the node every attempt is dispatched to.
C24_CurrentNodeIsCandidate ==
    /\ client_node \in Candidates
    /\ \A i \in 1..Len(hist) : hist[i].after \in Candidates /\ hist[i].node \in Candidates

C24_Witness ==
    /\ Len(node_account_ids) = 2
    /\ Len(hist) = 3
    /\ hist[1].kind = "RPC"
    /\ hist[2].kind = RETRY
    /\ hist[3].kind = "RPC"
    /\ client_node \in Candidates

\* C25: with a budget of 0 _execute builds no request, makes no dispatch
\* and no backoff wait, and raises MaxAttemptsError with the client's current
\* node and no last error.
C25_ZeroBudget ==
    max_attempts = 0
    => /\ builds = 0
       /\ dispatches = 0
       /\ called = << >>
       /\ hist = << >>
       /\ sleeps = << >>
       /\ switches = 0
       /\ client_node = start_node
       /\ pc # "dispatch"
       /\ pc = "done" => /\ outcome.kind = "max_attempts"
                         /\ outcome.node = client_node
                         /\ outcome.error = NoError

C25_Witness ==
    /\ max_attempts = 0
    /\ pc = "done"
    /\ outcome.kind = "max_attempts"
    /\ outcome.error = NoError
    /\ Len(node_account_ids) >= 2
    /\ outcome.node = node_account_ids[2]

\* C23 (as claimed): in every attempt the channel used for the dispatch and
\* the node recorded on the operation belong to the same node, also when
\* another execution on the shared client switches node during the attempt.
C23_ClaimedChannelMatchesNode ==
    pc = "dispatch" => channel = self_node

\* C23 (amended): in every attempt the channel used for the dispatch and the
\* node recorded on the operation belong to the same node, unless another
\* execution switched the shared client's node between the attempt's channel
\* acquisition (line 170) and its copy of the node (line 173).
C23_ChannelMatchesNodeUnlessRaced ==
    (pc = "dispatch" /\ ~ interfered) => channel = self_node

C23_Witness ==
    /\ pc = "dispatch"
    /\ ~ interfered
    /\ attempt >= 1
    /\ switches = 0
    /\ self_node # start_node
    /\ channel = self_node

\* The field each setter is named after.
FieldOf ==
    [ set_token_id |-> "token_id", set_account_id |-> "account_id",
      set_topic_id |-> "topic_id", set_memo |-> "memo",
      set_admin_key |-> "admin_key", set_submit_key |-> "submit_key",
      set_auto_renew_period |-> "auto_renew_period",
      set_auto_renew_account |-> "auto_renew_account",
      set_expiration_time |-> "expiration_time" ]

\* The transaction after the last call has stored its argument in its field;
\* of an int or Duration period the Duration of its seconds is what is stored.
StoredLastArgument ==
    IF last_call.setter = "set_auto_renew_period"
    THEN operation = [ last_call.before EXCEPT
                         !.auto_renew_period = Duration(last_call.arg.seconds) ]
    ELSE operation = [ last_call.before EXCEPT
                         ![FieldOf[last_call.setter]] = last_call.arg.val ]

\* The last call raised and assigned nothing.
RaisedUnchanged ==
    /\ last_call.raised # "none"
    /\ last_call.returned = "none"
    /\ operation = last_call.before

\* The last call stored its argument and returned the transaction.
StoredReturnedSelf ==
    /\ last_call.raised = "none"
    /\ last_call.returned = "self"
    /\ StoredLastArgument

====
